---------------------------- MODULE Spec2Model ----------------------------
(***************************************************************************)
(* Tic-Tac-Go (apollostream/TicTacGo_AI), threaded variant                 *)
(* tic-tac-go-threaded3.py: the shared 12x12 board, make_move and          *)
(* get_ai_move of the foreground, and the background worker                *)
(* continuous_analysis with its best_moves cache, the board_updated event  *)
(* and self.lock.                                                          *)
(***************************************************************************)
EXTENDS Integers, Sequences, FiniteSets, TLC

(***************************************************************************)
(* Program constants.                                                      *)
(***************************************************************************)
N == 12
WinLen == 6

(***************************************************************************)
(* Bounds of the model.  Calls are made while the board holds fewer than   *)
(* MaxMarks marks; the worker runs a search only                           *)
(* while the cache holds fewer than MaxCache entries; a scan of            *)
(* get_valid_positions that the foreground overtakes is overtaken within   *)
(* its first MaxSplit cells.                                               *)
(***************************************************************************)
MaxMarks == 2
MaxCache == 2
MaxCornerMarks == 3
MaxSplit == 2
MaxDepth == 2

EMPTY == " "
ai_player == "O"
human_player == "X"

\* None (Python) for the Optional[Tuple] results, and the IndexError raised by
\* valid_moves[0] on an empty list.
None == <<>>
IndexError == <<"IndexError">>

\* True and False as make_move returns them (values comparable with the
\* moves and the IndexError that get_ai_move leaves in the same place)
True == <<"True">>
False == <<"False">>

Idx == 0..(N - 1)

Abs(x) == IF x < 0 THEN -x ELSE x
Max2(a, b) == IF a > b THEN a ELSE b
Min2(a, b) == IF a < b THEN a ELSE b
MinOf(S) == CHOOSE x \in S : \A y \in S : x <= y

\* the elements of a list
Range(seq) == {seq[k] : k \in 1..Len(seq)}

\* np.full((12, 12), ' ')
EmptyBoard == [i \in Idx |-> [j \in Idx |-> EMPTY]]

\* board[row][col] = mark
Place(b, row, col, mark) == [b EXCEPT ![row][col] = mark]

\* the cells in row-major order: for i in range(12): for j in range(12)
AllCells == [k \in 1..(N * N) |-> <<(k - 1) \div N, (k - 1) % N>>]

\* 'O' if player == 'X' else 'X'
Opponent(player) == IF player = "X" THEN "O" ELSE "X"

\* np.any(board == mark)
AnyMark(b, mark) == \E i \in Idx : \E j \in Idx : b[i][j] = mark

\* np.any(board != ' ')
AnyNonEmpty(b) == \E i \in Idx : \E j \in Idx : b[i][j] # EMPTY

MarkCount(b) == Cardinality({c \in Idx \X Idx : b[c[1]][c[2]] # EMPTY})

InRange(row, col) == ~(row < 0 \/ row >= N \/ col < 0 \/ col >= N)

\* is_valid_move: range test first, the cell is read only when in range
is_valid_move(b, row, col) ==
    IF row < 0 \/ row >= N \/ col < 0 \/ col >= N THEN FALSE
    ELSE b[row][col] = EMPTY

\* can_block / can_block_for_state: an opponent mark in the clipped 3x3 block
can_block(b, row, col, player) ==
    \E i \in Max2(0, row - 1)..(Min2(N, row + 2) - 1) :
        \E j \in Max2(0, col - 1)..(Min2(N, col + 2) - 1) :
            b[i][j] = Opponent(player)

\* can_block_for_state with the neighbourhood one row and one column short
can_block_for_state_Short(row, col, player, board_state) ==
    \E i \in Max2(0, row - 1)..(Min2(N, row + 1) - 1) :
        \E j \in Max2(0, col - 1)..(Min2(N, col + 1) - 1) :
            board_state[i][j] = Opponent(player)

can_block_for_state(row, col, player, board_state) ==
    \E i \in Max2(0, row - 1)..(Min2(N, row + 2) - 1) :
        \E j \in Max2(0, col - 1)..(Min2(N, col + 2) - 1) :
            board_state[i][j] = Opponent(player)

\* get_valid_positions evaluated on one board for one current player
get_valid_positions_on(b, player) ==
    LET nonempty == AnyNonEmpty(b)
        Ok(c) == /\ is_valid_move(b, c[1], c[2])
                 /\ (~nonempty \/ can_block(b, c[1], c[2], player))
    IN  SelectSeq(AllCells, Ok)

\* get_valid_positions scans self.board without the lock: the cells before
\* scan position p are judged on the board as it was when the scan began
\* (b0, player0), the cells from p on on the board as it is when the scan
\* ends (b1, player1).
ValidCells(b, player) ==
    LET nonempty == AnyNonEmpty(b)
    IN  {k \in 1..(N * N) :
            /\ is_valid_move(b, AllCells[k][1], AllCells[k][2])
            /\ (~nonempty \/ can_block(b, AllCells[k][1], AllCells[k][2], player))}

\* the scan positions, among the first MaxSplit, at which the outcome of a
\* torn scan changes
SplitPoints(b0, player0, b1, player1) ==
    LET v0 == ValidCells(b0, player0)
        v1 == ValidCells(b1, player1)
    IN  {0} \cup {k \in 1..MaxSplit : (k \in v0) # (k \in v1)}

get_valid_positions_torn(b0, player0, b1, player1, p) ==
    LET v0 == ValidCells(b0, player0)
        v1 == ValidCells(b1, player1)
        ks == {k \in 1..(N * N) : IF k <= p THEN k \in v0 ELSE k \in v1}
        Ok(c) == (c[1] * N + c[2] + 1) \in ks
    IN  SelectSeq(AllCells, Ok)

\* get_valid_moves_for_state: blocking moves first, then (empty board only)
\* every cell; always for the AI player
get_valid_moves_for_state(board_state) ==
    LET nonempty == AnyNonEmpty(board_state)
        Blocking(c) == /\ board_state[c[1]][c[2]] = EMPTY
                       /\ can_block_for_state(c[1], c[2], ai_player, board_state)
        Valid(c) == /\ board_state[c[1]][c[2]] = EMPTY
                    /\ ~can_block_for_state(c[1], c[2], ai_player, board_state)
                    /\ ~nonempty
        blocking_moves == SelectSeq(AllCells, Blocking)
        valid_moves_ == SelectSeq(AllCells, Valid)
    IN  IF blocking_moves # <<>> THEN blocking_moves \o valid_moves_
        ELSE valid_moves_

\* The windows of six cells in the order check_winner scans them: rows,
\* columns, down-right diagonals, down-left diagonals.
RowWindows == [k \in 1..(N * 7) |-> <<(k - 1) \div 7, (k - 1) % 7, 0, 1>>]
ColWindows == [k \in 1..(7 * N) |-> <<(k - 1) \div N, (k - 1) % N, 1, 0>>]
DiagWindows == [k \in 1..(7 * 7) |-> <<(k - 1) \div 7, (k - 1) % 7, 1, 1>>]
\* the down-left scan stopping one column short of the right edge
AntiWindows_ShortOfEdge ==
    [k \in 1..(7 * 6) |-> <<(k - 1) \div 6, 5 + ((k - 1) % 6), 1, -1>>]
AntiWindows == [k \in 1..(7 * 7) |-> <<(k - 1) \div 7, 5 + ((k - 1) % 7), 1, -1>>]
Windows == RowWindows \o ColWindows \o DiagWindows \o AntiWindows

\* all(board[..] == 'X' for k in range(6)) or all(board[..] == 'O' ...): the
\* six cells of window w hold the same mark, 'X' or 'O'
WindowFull(b, w) ==
    LET mark == b[w[1]][w[2]]
    IN  /\ mark # EMPTY
        /\ \A k \in 1..(WinLen - 1) : b[w[1] + k * w[3]][w[2] + k * w[4]] = mark

\* None as check_winner returns it (a value comparable with 'X' and 'O')
NoWinner == "None"

\* check_winner / check_winner_for_state: the mark of the first window, in
\* scan order, that holds six equal marks
check_winner_for_state(board_state) ==
    LET full == {k \in 1..Len(Windows) : WindowFull(board_state, Windows[k])}
    IN  IF full = {} THEN NoWinner
        ELSE LET w == Windows[MinOf(full)]
             IN  board_state[w[1]][w[2]]

check_winner(b) == check_winner_for_state(b)

\* the first of the moves at the positions hits of a list, or None
FirstMove(moves, hits) ==
    IF hits = {} THEN None ELSE moves[MinOf(hits)]

\* find_winning_move checking the winner without having placed the mark
find_winning_move_NoPlace(b, player) ==
    LET moves == get_valid_moves_for_state(b)
        Wins(m) == check_winner_for_state(b) = player
    IN  FirstMove(moves, {k \in 1..Len(moves) : Wins(moves[k])})

\* find_winning_move: try each valid move, check the winner, undo
find_winning_move(b, player) ==
    LET moves == get_valid_moves_for_state(b)
        Wins(m) == check_winner_for_state(Place(b, m[1], m[2], player)) = player
    IN  FirstMove(moves, {k \in 1..Len(moves) : Wins(moves[k])})

\* the run of player's marks from (r, c) in direction (dx, dy)
RECURSIVE Run(_, _, _, _, _, _)
Run(b, r, c, dx, dy, player) ==
    IF 0 <= r /\ r < N /\ 0 <= c /\ c < N /\ b[r][c] = player
    THEN 1 + Run(b, r + dx, c + dy, dx, dy, player)
    ELSE 0

Directions == << <<0, 1>>, <<1, 0>>, <<1, 1>>, <<1, -1>> >>

\* would_complete_sequence: place, count both ways in each direction, undo
would_complete_sequence(b, row, col, player, length) ==
    LET b2 == Place(b, row, col, player)
    IN  \E d \in 1..4 :
            LET dx == Directions[d][1]
                dy == Directions[d][2]
            IN  1 + Run(b2, row + dx, col + dy, dx, dy, player)
                  + Run(b2, row - dx, col - dy, -dx, -dy, player) >= length

\* find_sequence_move
find_sequence_move(b, player, length) ==
    LET moves == get_valid_moves_for_state(b)
        Completes(m) == would_complete_sequence(b, m[1], m[2], player, length)
    IN  FirstMove(moves, {k \in 1..Len(moves) : Completes(moves[k])})

\* one while loop of count_potential_sequences: <<pieces, gaps>> on exit
RECURSIVE Walk(_, _, _, _, _, _, _, _, _)
Walk(b, r, c, dx, dy, player, length, pieces, gaps) ==
    IF 0 <= r /\ r < N /\ 0 <= c /\ c < N /\ gaps < 2 /\ pieces < length
    THEN IF b[r][c] = player
         THEN Walk(b, r + dx, c + dy, dx, dy, player, length, pieces + 1, gaps)
         ELSE IF b[r][c] = EMPTY
              THEN Walk(b, r + dx, c + dy, dx, dy, player, length, pieces, gaps + 1)
              ELSE <<pieces, gaps>>
    ELSE <<pieces, gaps>>

\* count_potential_sequences: gaps carries over from the forward loop to the
\* backward loop of the same direction
count_potential_sequences(b, row, col, player, length) ==
    LET Hit(d) ==
            LET dx == Directions[d][1]
                dy == Directions[d][2]
                fwd == Walk(b, row + dx, col + dy, dx, dy, player, length, 1, 0)
                bwd == Walk(b, row - dx, col - dy, -dx, -dy, player, length,
                            fwd[1], fwd[2])
            IN  bwd[1] >= length - bwd[2]
    IN  Cardinality({d \in 1..4 : Hit(d)})

\* 10 * (6 - abs(row - 5.5) - abs(col - 5.5)), which is the integer below
CenterValue(row, col) == 60 - 5 * Abs(2 * row - 11) - 5 * Abs(2 * col - 11)

\* evaluate_strategic_position
evaluate_strategic_position(b, row, col) ==
    LET bo == Place(b, row, col, ai_player)
        bx == Place(b, row, col, human_player)
        Gain(length) ==
            IF count_potential_sequences(bo, row, col, ai_player, length) # 0
            THEN length * length * 10 ELSE 0
        Loss(length) ==
            IF count_potential_sequences(bx, row, col, human_player, length) # 0
            THEN length * length * 15 ELSE 0
    IN  CenterValue(row, col) + Gain(3) + Gain(4) + Gain(5)
          - Loss(3) - Loss(4) - Loss(5)

\* find_strategic_move with the candidates taken from every empty cell
\* instead of get_valid_moves_for_state
find_strategic_move_AnyEmptyCell(b) ==
    LET IsEmpty(c) == b[c[1]][c[2]] = EMPTY
        cells == SelectSeq(AllCells, IsEmpty)
        score == [k \in 1..Len(cells) |->
                    evaluate_strategic_position(b, cells[k][1], cells[k][2])]
        best == {k \in 1..Len(cells) : \A l \in 1..Len(cells) : score[l] <= score[k]}
    IN  IF cells = <<>> THEN IndexError ELSE cells[MinOf(best)]

\* find_strategic_move replacing its best move on an equal score as well
\* (score >= best_score): the last move of the best score
find_strategic_move_LastBest(b) ==
    LET valid_moves_ == get_valid_moves_for_state(b)
        score == [k \in 1..Len(valid_moves_) |->
                    evaluate_strategic_position(b, valid_moves_[k][1],
                                                valid_moves_[k][2])]
        best == {k \in 1..Len(valid_moves_) :
                    \A l \in 1..Len(valid_moves_) : score[l] <= score[k]}
    IN  IF valid_moves_ = <<>> THEN IndexError
        ELSE valid_moves_[CHOOSE k \in best : \A l \in best : l <= k]

\* find_strategic_move: the first move of the best score; valid_moves[0] on
\* an empty list raises IndexError
find_strategic_move(b) ==
    LET valid_moves_ == get_valid_moves_for_state(b)
        score == [k \in 1..Len(valid_moves_) |->
                    evaluate_strategic_position(b, valid_moves_[k][1],
                                                valid_moves_[k][2])]
        best == {k \in 1..Len(valid_moves_) :
                    \A l \in 1..Len(valid_moves_) : score[l] <= score[k]}
    IN  IF valid_moves_ = <<>> THEN IndexError
        ELSE valid_moves_[MinOf(best)]

\* find_best_response without the check for a human win to block
find_best_response_NoBlock(board_state) ==
    LET winning_move == find_winning_move(board_state, ai_player)
        blocking_five == find_sequence_move(board_state, human_player, 5)
        making_five == find_sequence_move(board_state, ai_player, 5)
        blocking_four == find_sequence_move(board_state, human_player, 4)
    IN  IF winning_move # None THEN winning_move
        ELSE IF blocking_five # None THEN blocking_five
        ELSE IF making_five # None THEN making_five
        ELSE IF blocking_four # None THEN blocking_four
        ELSE find_strategic_move(board_state)

\* find_best_response trying to block the human's win before taking its own
find_best_response_BlockFirst(board_state) ==
    LET winning_move == find_winning_move(board_state, ai_player)
        blocking_move == find_winning_move(board_state, human_player)
        blocking_five == find_sequence_move(board_state, human_player, 5)
        making_five == find_sequence_move(board_state, ai_player, 5)
        blocking_four == find_sequence_move(board_state, human_player, 4)
    IN  IF blocking_move # None THEN blocking_move
        ELSE IF winning_move # None THEN winning_move
        ELSE IF blocking_five # None THEN blocking_five
        ELSE IF making_five # None THEN making_five
        ELSE IF blocking_four # None THEN blocking_four
        ELSE find_strategic_move(board_state)

\* find_best_response: the fast paths in order, then the strategic move
find_best_response(board_state) ==
    LET winning_move == find_winning_move(board_state, ai_player)
        blocking_move == find_winning_move(board_state, human_player)
        blocking_five == find_sequence_move(board_state, human_player, 5)
        making_five == find_sequence_move(board_state, ai_player, 5)
        blocking_four == find_sequence_move(board_state, human_player, 4)
    IN  IF winning_move # None THEN winning_move
        ELSE IF blocking_move # None THEN blocking_move
        ELSE IF blocking_five # None THEN blocking_five
        ELSE IF making_five # None THEN making_five
        ELSE IF blocking_four # None THEN blocking_four
        ELSE find_strategic_move(board_state)

\* the candidates a search loop has tried when it returns: those up to its
\* first hit, or all of them
TriedCells(moves, hits) ==
    {moves[k] : k \in 1..(IF hits = {} THEN Len(moves) ELSE MinOf(hits))}

\* the array after each of cells was given a tentative mark and then set
\* back to ' ' (lines 110-112, 144-147, 177, 184); @@ <<>> tabulates the
\* function
Undone(b, cells) ==
    [i \in Idx |->
        [j \in Idx |-> IF <<i, j>> \in cells THEN EMPTY ELSE b[i][j]] @@ <<>>]
    @@ <<>>

\* find_winning_move that returns its hit without setting the cell back
board_after_find_winning_move_NoUndoOnHit(b, player) ==
    LET moves == get_valid_moves_for_state(b)
        Wins(m) == check_winner_for_state(Place(b, m[1], m[2], player)) = player
        hits == {k \in 1..Len(moves) : Wins(moves[k])}
        b2 == Undone(b, TriedCells(moves, hits))
    IN  IF hits = {} THEN b2
        ELSE Place(b2, moves[MinOf(hits)][1], moves[MinOf(hits)][2], player)

\* the array find_winning_move leaves behind
board_after_find_winning_move(b, player) ==
    LET moves == get_valid_moves_for_state(b)
        Wins(m) == check_winner_for_state(Place(b, m[1], m[2], player)) = player
    IN  Undone(b, TriedCells(moves, {k \in 1..Len(moves) : Wins(moves[k])}))

\* the array find_sequence_move leaves behind (through
\* would_complete_sequence)
board_after_find_sequence_move(b, player, length) ==
    LET moves == get_valid_moves_for_state(b)
        Completes(m) == would_complete_sequence(b, m[1], m[2], player, length)
    IN  Undone(b, TriedCells(moves, {k \in 1..Len(moves) : Completes(moves[k])}))

\* the array find_strategic_move leaves behind (through
\* evaluate_strategic_position)
board_after_find_strategic_move(b) ==
    Undone(b, Range(get_valid_moves_for_state(b)))

\* the array find_best_response leaves behind: each search runs on what the
\* searches before it left
board_after_find_best_response(board_state) ==
    LET b1 == board_after_find_winning_move(board_state, ai_player)
        b2 == board_after_find_winning_move(b1, human_player)
        b3 == board_after_find_sequence_move(b2, human_player, 5)
        b4 == board_after_find_sequence_move(b3, ai_player, 5)
        b5 == board_after_find_sequence_move(b4, human_player, 4)
    IN  IF find_winning_move(board_state, ai_player) # None THEN b1
        ELSE IF find_winning_move(b1, human_player) # None THEN b2
        ELSE IF find_sequence_move(b2, human_player, 5) # None THEN b3
        ELSE IF find_sequence_move(b3, ai_player, 5) # None THEN b4
        ELSE IF find_sequence_move(b4, human_player, 4) # None THEN b5
        ELSE board_after_find_strategic_move(b5)

\* a fingerprint that reads the first row only
hash_board_FirstRow(b) ==
    [k \in 1..(N * N) |-> IF k <= N THEN b[0][k - 1] ELSE EMPTY]

\* hash_board: ''.join(board.flatten()), one character per cell, row-major
hash_board(b) == [k \in 1..(N * N) |-> b[AllCells[k][1]][AllCells[k][2]]]

(***************************************************************************)
(* State.  The shared object: board, current_player, best_moves, the two   *)
(* events and the lock.  The foreground thread: its position and the       *)
(* arguments and result of the call in progress.  The worker thread: its   *)
(* position in continuous_analysis and its locals.                         *)
(***************************************************************************)
VARIABLES
    board,           \* self.board
    current_player,  \* self.current_player
    best_moves,      \* self.best_moves: fingerprint -> move
    board_updated,   \* self.board_updated (Event)
    stop_thinking,   \* self.stop_thinking (Event)
    lock,            \* self.lock: "free", "fg" or "worker"
    fg_pc, fg_row, fg_col, fg_player, fg_ret,
    w_pc,
    current_board,   \* the worker's snapshot
    scan_board,      \* self.board as it was when get_valid_positions began
    scan_player,     \* self.current_player as it was then
    valid_moves,     \* the worker's candidate list
    w_i,             \* position of the for loop in valid_moves (1-based)
    test_board, best_response, board_hash

shared == <<board, current_player, best_moves, board_updated, stop_thinking, lock>>
fg_vars == <<fg_pc, fg_row, fg_col, fg_player, fg_ret>>
w_locals == <<current_board, scan_board, scan_player, valid_moves, w_i,
              test_board, best_response, board_hash>>
vars == <<shared, fg_vars, w_pc, w_locals>>

\* the coordinates and players a caller passes
RowInputs == {-1, 0, N}
ColInputs == {-1, 0, 1, 2, N}
Players == {"X", "O"}

\* value of a local that is not in scope
Unset == <<>>

Init ==
    /\ board = EmptyBoard
    /\ current_player = "X"
    /\ best_moves = <<>>
    /\ board_updated = FALSE
    /\ stop_thinking = FALSE
    /\ lock = "free"
    /\ fg_pc = "idle" /\ fg_row = 0 /\ fg_col = 0 /\ fg_player = "X"
    /\ fg_ret = Unset
    /\ w_pc = "while"
    /\ current_board = Unset /\ scan_board = Unset /\ scan_player = "X"
    /\ valid_moves = <<>> /\ w_i = 1
    /\ test_board = Unset /\ best_response = Unset /\ board_hash = Unset

(***************************************************************************)
(* Foreground: make_move.                                                  *)
(***************************************************************************)
\* the legality test with "no mark at all" in place of "no opponent mark"
move_accepted_AnyMark(b, row, col, player) ==
    /\ b[row][col] = EMPTY
    /\ (~AnyNonEmpty(b) \/ can_block(b, row, col, player))

\* the legality test made under the lock (lines 235-237)
move_accepted(b, row, col, player) ==
    /\ b[row][col] = EMPTY
    /\ (~AnyMark(b, Opponent(player)) \/ can_block(b, row, col, player))

\* line 231: is_valid_move reads self.board before the lock is taken
MakeMove_Validate(row, col, player) ==
    /\ IF is_valid_move(board, row, col)
       THEN /\ fg_pc' = "mm_lock"
            /\ fg_row' = row /\ fg_col' = col /\ fg_player' = player
            /\ fg_ret' = Unset
       ELSE /\ fg_pc' = "mm_ret"
            /\ fg_ret' = False
            /\ fg_row' = 0 /\ fg_col' = 0 /\ fg_player' = "X"
    /\ UNCHANGED <<shared, w_pc, w_locals>>

\* line 234: with self.lock
MakeMove_Acquire ==
    /\ fg_pc = "mm_lock"
    /\ lock = "free"
    /\ lock' = "fg"
    /\ fg_pc' = "mm_body"
    /\ UNCHANGED <<board, current_player, best_moves, board_updated, stop_thinking,
                   fg_row, fg_col, fg_player, fg_ret, w_pc, w_locals>>

\* make_move with board_updated.set() placed after the if, so that a
\* rejected move raises the signal too
MakeMove_Write_SignalOnReject ==
    /\ fg_pc = "mm_body"
    /\ IF move_accepted(board, fg_row, fg_col, fg_player)
       THEN /\ board' = Place(board, fg_row, fg_col, fg_player)
            /\ fg_pc' = "mm_set"
            /\ UNCHANGED <<lock, fg_ret, fg_row, fg_col, fg_player, board_updated>>
       ELSE /\ lock' = "free"
            /\ fg_ret' = False
            /\ fg_pc' = "mm_ret"
            /\ fg_row' = 0 /\ fg_col' = 0 /\ fg_player' = "X"
            /\ board_updated' = TRUE
            /\ UNCHANGED board
    /\ UNCHANGED <<current_player, best_moves, stop_thinking, w_pc, w_locals>>

\* lines 235-238 and 242: test and write the cell, or leave the with block
\* and return False
MakeMove_Write ==
    /\ fg_pc = "mm_body"
    /\ IF move_accepted(board, fg_row, fg_col, fg_player)
       THEN /\ board' = Place(board, fg_row, fg_col, fg_player)
            /\ fg_pc' = "mm_set"
            /\ UNCHANGED <<lock, fg_ret, fg_row, fg_col, fg_player>>
       ELSE /\ lock' = "free"
            /\ fg_ret' = False
            /\ fg_pc' = "mm_ret"
            /\ fg_row' = 0 /\ fg_col' = 0 /\ fg_player' = "X"
            /\ UNCHANGED board
    /\ UNCHANGED <<current_player, best_moves, board_updated, stop_thinking,
                   w_pc, w_locals>>

\* make_move that returns True without raising board_updated
MakeMove_Signal_NoSet ==
    /\ fg_pc = "mm_set"
    /\ lock' = "free"
    /\ fg_ret' = True
    /\ fg_pc' = "mm_ret"
    /\ fg_row' = 0 /\ fg_col' = 0 /\ fg_player' = "X"
    /\ UNCHANGED <<board, current_player, best_moves, board_updated, stop_thinking,
                   w_pc, w_locals>>

\* lines 240-241: board_updated.set(), return True (the with block ends)
MakeMove_Signal ==
    /\ fg_pc = "mm_set"
    /\ board_updated' = TRUE
    /\ lock' = "free"
    /\ fg_ret' = True
    /\ fg_pc' = "mm_ret"
    /\ fg_row' = 0 /\ fg_col' = 0 /\ fg_player' = "X"
    /\ UNCHANGED <<board, current_player, best_moves, stop_thinking,
                   w_pc, w_locals>>

(***************************************************************************)
(* Foreground: get_ai_move.                                                *)
(***************************************************************************)
\* line 246: with self.lock
GetAiMove_Acquire ==
    /\ lock = "free"
    /\ lock' = "fg"
    /\ fg_pc' = "ga_lookup"
    /\ UNCHANGED <<board, current_player, best_moves, board_updated, stop_thinking,
                   fg_row, fg_col, fg_player, fg_ret, w_pc, w_locals>>

\* lines 247-251: fingerprint of the live board, cache lookup
GetAiMove_Lookup ==
    /\ fg_pc = "ga_lookup"
    /\ LET h == hash_board(board)
       IN  IF h \in DOMAIN best_moves
           THEN /\ fg_ret' = best_moves[h]
                /\ lock' = "free"
                /\ fg_pc' = "ga_ret"
           ELSE /\ fg_pc' = "ga_search"
                /\ UNCHANGED <<lock, fg_ret>>
    /\ UNCHANGED <<board, current_player, best_moves, board_updated, stop_thinking,
                   fg_row, fg_col, fg_player, w_pc, w_locals>>

\* line 254: find_best_response(copy.deepcopy(self.board)), still inside the
\* with block; the lock is released when the block is left, by return or by
\* the IndexError
GetAiMove_Search ==
    /\ fg_pc = "ga_search"
    /\ fg_ret' = find_best_response(board)
    /\ lock' = "free"
    /\ fg_pc' = "ga_ret"
    /\ UNCHANGED <<board, current_player, best_moves, board_updated, stop_thinking,
                   fg_row, fg_col, fg_player, w_pc, w_locals>>

(***************************************************************************)
(* Foreground: play_game, the caller of make_move and get_ai_move.         *)
(***************************************************************************)
\* is_board_full
is_board_full(b) == ~AnyMark(b, EMPTY)

\* lines 266-275: on the human's turn the coordinates read are passed to
\* make_move when get_valid_positions lists them (otherwise the prompt is
\* repeated and nothing changes)
PlayGame_HumanMove ==
    /\ fg_pc = "idle"
    /\ current_player = human_player
    /\ MarkCount(board) < MaxMarks
    /\ LET valid_positions == get_valid_positions_on(board, current_player)
       IN  \E k \in 1..Len(valid_positions) :
              /\ valid_positions[k][1] \in RowInputs
              /\ valid_positions[k][2] \in ColInputs
              /\ MakeMove_Validate(valid_positions[k][1], valid_positions[k][2],
                                   current_player)

\* lines 280-281: on the AI's turn
PlayGame_AskAi ==
    /\ fg_pc = "idle"
    /\ current_player = ai_player
    /\ MarkCount(board) < MaxMarks
    /\ GetAiMove_Acquire

\* lines 281-284: the move get_ai_move returned is passed to make_move; an
\* IndexError raised by get_ai_move ends play_game
PlayGame_AiMove ==
    /\ fg_pc = "ga_ret"
    /\ IF fg_ret = IndexError
       THEN /\ fg_pc' = "over"
            /\ fg_ret' = Unset
            /\ UNCHANGED <<shared, fg_row, fg_col, fg_player, w_pc, w_locals>>
       ELSE MakeMove_Validate(fg_ret[1], fg_ret[2], current_player)

\* lines 285-303: after the move, the game ends (a rejected AI move, a
\* winner, a full board) or the turn passes
PlayGame_EndTurn ==
    /\ fg_pc = "mm_ret"
    /\ fg_ret' = Unset
    /\ IF \/ (current_player = ai_player /\ fg_ret = False)
          \/ check_winner(board) # NoWinner
          \/ is_board_full(board)
       THEN fg_pc' = "over" /\ UNCHANGED current_player
       ELSE fg_pc' = "idle" /\ current_player' = Opponent(current_player)
    /\ UNCHANGED <<board, best_moves, board_updated, stop_thinking, lock,
                   fg_row, fg_col, fg_player, w_pc, w_locals>>

(***************************************************************************)
(* Foreground: any other caller of make_move.                              *)
(***************************************************************************)
Api_MakeMove ==
    /\ fg_pc = "idle"
    /\ MarkCount(board) < MaxMarks
    /\ \E row \in RowInputs : \E col \in ColInputs : \E player \in Players :
          MakeMove_Validate(row, col, player)

Api_Return ==
    /\ fg_pc = "mm_ret"
    /\ fg_pc' = "idle"
    /\ fg_ret' = Unset
    /\ UNCHANGED <<shared, fg_row, fg_col, fg_player, w_pc, w_locals>>

(***************************************************************************)
(* Foreground: __del__.                                                    *)
(***************************************************************************)
\* line 307
Del_Stop ==
    /\ fg_pc \in {"idle", "over"}
    /\ stop_thinking' = TRUE
    /\ fg_pc' = "join"
    /\ UNCHANGED <<board, current_player, best_moves, board_updated, lock,
                   fg_row, fg_col, fg_player, fg_ret, w_pc, w_locals>>

\* lines 308-309: join returns once the worker thread has ended
Del_Join ==
    /\ fg_pc = "join"
    /\ w_pc \in {"done", "dead"}
    /\ fg_pc' = "closed"
    /\ UNCHANGED <<shared, fg_row, fg_col, fg_player, fg_ret, w_pc, w_locals>>

(***************************************************************************)
(* Worker: continuous_analysis.                                            *)
(***************************************************************************)
ResetSweep ==
    /\ current_board' = Unset /\ valid_moves' = <<>> /\ w_i' = 1
    /\ test_board' = Unset /\ best_response' = Unset /\ board_hash' = Unset

\* the worker testing nothing at the head of its loop
W_While_IgnoreStop ==
    /\ w_pc = "while"
    /\ w_pc' = "lock1"
    /\ UNCHANGED <<shared, fg_vars, w_locals>>

\* line 43
W_While ==
    /\ w_pc = "while"
    /\ w_pc' = IF stop_thinking THEN "done" ELSE "lock1"
    /\ UNCHANGED <<shared, fg_vars, w_locals>>

\* line 44
W_Acquire1 ==
    /\ w_pc = "lock1"
    /\ lock = "free"
    /\ lock' = "worker"
    /\ w_pc' = "copy"
    /\ UNCHANGED <<board, current_player, best_moves, board_updated, stop_thinking,
                   fg_vars, w_locals>>

\* the worker keeping the lock after the copy, so that the rest of the
\* sweep runs inside the with block
W_Copy_KeepLock ==
    /\ w_pc = "copy"
    /\ current_board' = board
    /\ w_pc' = "scan"
    /\ UNCHANGED <<shared, fg_vars, scan_board, scan_player, valid_moves, w_i,
                   test_board, best_response, board_hash>>

\* line 45
W_Copy ==
    /\ w_pc = "copy"
    /\ current_board' = board
    /\ lock' = "free"
    /\ w_pc' = "scan"
    /\ UNCHANGED <<board, current_player, best_moves, board_updated, stop_thinking,
                   fg_vars, scan_board, scan_player, valid_moves, w_i, test_board,
                   best_response, board_hash>>

\* line 48: get_valid_positions begins its scan of self.board
W_ScanBegin ==
    /\ w_pc = "scan"
    /\ scan_board' = board
    /\ scan_player' = current_player
    /\ w_pc' = "scan_end"
    /\ UNCHANGED <<shared, fg_vars, current_board, valid_moves, w_i, test_board,
                   best_response, board_hash>>

\* line 48: the scan ends; whatever the foreground changed meanwhile is seen
\* from some scan position on
W_ScanEnd ==
    /\ w_pc = "scan_end"
    /\ IF scan_board = board /\ scan_player = current_player
       THEN valid_moves' = get_valid_positions_on(board, current_player)
       ELSE \E p \in SplitPoints(scan_board, scan_player, board, current_player) :
               valid_moves' = get_valid_positions_torn(scan_board, scan_player,
                                                       board, current_player, p)
    /\ w_i' = 1
    /\ scan_board' = Unset /\ scan_player' = "X"
    /\ w_pc' = "check"
    /\ UNCHANGED <<shared, fg_vars, current_board, test_board, best_response,
                   board_hash>>

\* lines 51-55 and 71: next candidate of the for loop, or the sweep is over;
\* board_updated.is_set()
W_Check ==
    /\ w_pc = "check"
    /\ IF w_i > Len(valid_moves)
       THEN w_pc' = "while" /\ ResetSweep
       ELSE /\ w_pc' = IF board_updated THEN "clear" ELSE "eval"
            /\ UNCHANGED <<current_board, valid_moves, w_i, test_board,
                           best_response, board_hash>>
    /\ UNCHANGED <<shared, fg_vars, scan_board, scan_player>>

\* lines 54-55 and 71: board_updated.clear(); break
W_Clear ==
    /\ w_pc = "clear"
    /\ board_updated' = FALSE
    /\ w_pc' = "while"
    /\ ResetSweep
    /\ UNCHANGED <<board, current_player, best_moves, stop_thinking, lock,
                   fg_vars, scan_board, scan_player>>

\* the worker keying the cache entry by the fingerprint of its snapshot
\* instead of the hypothetical board
W_Evaluate_KeyOfSnapshot ==
    /\ w_pc = "eval"
    /\ (stop_thinking \/ Cardinality(DOMAIN best_moves) < MaxCache)
    /\ LET player_move == valid_moves[w_i]
           tb == Place(current_board, player_move[1], player_move[2], human_player)
           resp == find_best_response(tb)
       IN  /\ test_board' = tb
           /\ best_response' = resp
           /\ IF resp = IndexError
              THEN w_pc' = "dead" /\ board_hash' = Unset
              ELSE w_pc' = "lock2" /\ board_hash' = hash_board(current_board)
    /\ UNCHANGED <<shared, fg_vars, current_board, scan_board, scan_player,
                   valid_moves, w_i>>

\* the worker placing the hypothetical mark without the deep copies, that
\* is, on self.board itself
W_Evaluate_OnLiveBoard ==
    /\ w_pc = "eval"
    /\ (stop_thinking \/ Cardinality(DOMAIN best_moves) < MaxCache)
    /\ LET player_move == valid_moves[w_i]
           tb == Place(board, player_move[1], player_move[2], human_player)
           resp == find_best_response(tb)
       IN  /\ test_board' = tb
           /\ board' = tb
           /\ best_response' = resp
           /\ IF resp = IndexError
              THEN w_pc' = "dead" /\ board_hash' = Unset
              ELSE w_pc' = "lock2" /\ board_hash' = hash_board(tb)
    /\ UNCHANGED <<current_player, best_moves, board_updated, stop_thinking, lock,
                   fg_vars, current_board, scan_board, scan_player,
                   valid_moves, w_i>>

\* lines 58-66: the hypothetical board, the search on it, and the
\* fingerprint of the array as the search left it.  An IndexError ends the
\* thread.
W_Evaluate ==
    /\ w_pc = "eval"
    /\ (stop_thinking \/ Cardinality(DOMAIN best_moves) < MaxCache)
    /\ LET player_move == valid_moves[w_i]
           tb == Place(current_board, player_move[1], player_move[2], human_player)
           resp == find_best_response(tb)
       IN  /\ test_board' = board_after_find_best_response(tb)
           /\ best_response' = resp
           /\ IF resp = IndexError
              THEN w_pc' = "dead" /\ board_hash' = Unset
              ELSE w_pc' = "lock2" /\ board_hash' = hash_board(test_board')
    /\ UNCHANGED <<shared, fg_vars, current_board, scan_board, scan_player,
                   valid_moves, w_i>>

\* line 67
W_Acquire2 ==
    /\ w_pc = "lock2"
    /\ lock = "free"
    /\ lock' = "worker"
    /\ w_pc' = "store"
    /\ UNCHANGED <<board, current_player, best_moves, board_updated, stop_thinking,
                   fg_vars, w_locals>>

\* line 68
W_Store ==
    /\ w_pc = "store"
    /\ best_moves' = [h \in DOMAIN best_moves \cup {board_hash} |->
                        IF h = board_hash THEN best_response ELSE best_moves[h]]
    /\ lock' = "free"
    /\ w_i' = w_i + 1
    /\ test_board' = Unset /\ best_response' = Unset /\ board_hash' = Unset
    /\ w_pc' = "check"
    /\ UNCHANGED <<board, current_player, board_updated, stop_thinking,
                   fg_vars, current_board, scan_board, scan_player, valid_moves>>

Worker ==
    \/ W_While
    \/ W_Acquire1
    \/ W_Copy
    \/ W_ScanBegin
    \/ W_ScanEnd
    \/ W_Check
    \/ W_Clear
    \/ W_Evaluate
    \/ W_Acquire2
    \/ W_Store

\* the session as play_game runs it
Next ==
    \/ PlayGame_HumanMove
    \/ PlayGame_AskAi
    \/ PlayGame_AiMove
    \/ PlayGame_EndTurn
    \/ MakeMove_Acquire
    \/ MakeMove_Write
    \/ MakeMove_Signal
    \/ GetAiMove_Lookup
    \/ GetAiMove_Search
    \/ Worker

Spec == Init /\ [][Next]_vars

\* make_move called with any arguments, beside the worker
NextApi ==
    \/ Api_MakeMove
    \/ Api_Return
    \/ MakeMove_Acquire
    \/ MakeMove_Write
    \/ MakeMove_Signal
    \/ Worker

SpecApi == Init /\ [][NextApi]_vars

\* make_move called for marks in the top-left corner, beside the worker: the
\* boards on which a hypothetical human mark leaves the AI without a move
CornerRows == {0, 1}
CornerCols == {0, 1}
CornerPlayers == {"O"}

Api_CornerMove ==
    /\ fg_pc = "idle"
    /\ MarkCount(board) < MaxCornerMarks
    /\ \E row \in CornerRows : \E col \in CornerCols : \E player \in CornerPlayers :
          MakeMove_Validate(row, col, player)

NextCorner ==
    \/ Api_CornerMove
    \/ Api_Return
    \/ MakeMove_Acquire
    \/ MakeMove_Write
    \/ MakeMove_Signal
    \/ Worker

\* the worker can run its search
EvaluateEnabled ==
    /\ w_pc = "eval"
    /\ (stop_thinking \/ Cardinality(DOMAIN best_moves) < MaxCache)

\* both threads keep running: a call in progress goes on and the worker is
\* scheduled (for W_Evaluate, whose step always leaves "eval", weak fairness
\* is that the worker is not for ever about to run its search)
SpecCorner ==
    /\ Init /\ [][NextCorner]_vars
    /\ WF_vars(MakeMove_Acquire \/ MakeMove_Write \/ MakeMove_Signal)
    /\ WF_vars(W_While \/ W_Acquire1 \/ W_Copy \/ W_ScanBegin \/ W_ScanEnd
                  \/ W_Check \/ W_Clear \/ W_Acquire2 \/ W_Store)
    /\ []<>~EvaluateEnabled

\* the session as play_game runs it, torn down at some point between two
\* turns or after the game; both threads keep running
NextDel ==
    \/ Next
    \/ Del_Stop
    \/ Del_Join

SpecDel ==
    /\ Init /\ [][NextDel]_vars
    /\ WF_vars(Del_Join)
    /\ WF_vars(W_While \/ W_Acquire1 \/ W_Copy \/ W_ScanBegin \/ W_ScanEnd
                  \/ W_Check \/ W_Clear \/ W_Acquire2 \/ W_Store)
    /\ []<>~EvaluateEnabled

\* the session as play_game runs it, under fair scheduling: a thread that
\* holds the lock goes on, a thread that waits for the lock gets it if it is
\* free again and again, and a search in get_ai_move returns (for
\* GetAiMove_Search, whose step always leaves "ga_search", that is that the
\* foreground is not for ever about to run it)
SpecFair ==
    /\ Init /\ [][Next]_vars
    /\ WF_vars(MakeMove_Write \/ MakeMove_Signal \/ GetAiMove_Lookup)
    /\ []<>~(fg_pc = "ga_search")
    /\ SF_vars(MakeMove_Acquire)
    /\ SF_vars(PlayGame_AskAi)
    /\ SF_vars(W_Acquire1)
    /\ SF_vars(W_Acquire2)
    /\ WF_vars(W_Copy \/ W_Store)

(***************************************************************************)
(* The AI's turn on a given board: play_game's winner test after a move,   *)
(* then get_ai_move, make_move and the winner test again, on boards handed *)
(* to the session (the worker has not been scheduled yet).                 *)
(***************************************************************************)
\* b with len marks from (r, c) in direction (dx, dy)
PlaceRun(b, mark, r, c, dx, dy, len) ==
    [i \in Idx |-> [j \in Idx |->
        IF \E k \in 0..(len - 1) : i = r + k * dx /\ j = c + k * dy
        THEN mark ELSE b[i][j]]]

\* runs of five and six along the four directions, from the corners, the
\* edges and the middle of the board
EdgeStarts == {<<0, 0>>, <<0, 5>>, <<0, 6>>, <<0, 11>>, <<3, 3>>,
               <<6, 0>>, <<6, 5>>, <<6, 6>>, <<6, 11>>, <<7, 11>>}
EdgeLens == {WinLen - 1, WinLen}

Fits(r, c, dx, dy, len) ==
    /\ r + (len - 1) * dx \in Idx
    /\ c + (len - 1) * dy \in Idx

EdgeBoards ==
    {PlaceRun(EmptyBoard, mark, st[1], st[2], d[1], d[2], len) :
        <<mark, st, d, len>> \in
            {q \in Players \X EdgeStarts \X {<<0, 1>>, <<1, 0>>, <<1, 1>>, <<1, -1>>}
                        \X EdgeLens :
                Fits(q[2][1], q[2][2], q[3][1], q[3][2], q[4])}}

\* a run in row 0 from column 0 and a run in row 1 from column 1, each of
\* either player and of length 0 (no run), 2, 3, 4 or 5
RowLens == {0, 2, 3, 4, 5}
RowBoards ==
    {PlaceRun(PlaceRun(EmptyBoard, q[1], 0, 0, 0, 1, q[2]), q[3], 1, 1, 0, 1, q[4]) :
        q \in Players \X RowLens \X Players \X RowLens}

Boards == EdgeBoards \cup RowBoards

\* a board as it stands when the human's make_move has returned True
InitBoards ==
    /\ board \in Boards
    /\ current_player = human_player
    /\ best_moves = <<>>
    /\ board_updated = FALSE
    /\ stop_thinking = FALSE
    /\ lock = "free"
    /\ fg_pc = "mm_ret" /\ fg_row = 0 /\ fg_col = 0 /\ fg_player = "X"
    /\ fg_ret = True
    /\ w_pc = "while"
    /\ current_board = Unset /\ scan_board = Unset /\ scan_player = "X"
    /\ valid_moves = <<>> /\ w_i = 1
    /\ test_board = Unset /\ best_response = Unset /\ board_hash = Unset

\* lines 280-281: on the AI's turn
Board_AskAi ==
    /\ fg_pc = "idle"
    /\ current_player = ai_player
    /\ GetAiMove_Acquire

NextBoards ==
    \/ PlayGame_EndTurn
    \/ Board_AskAi
    \/ GetAiMove_Lookup
    \/ GetAiMove_Search
    \/ PlayGame_AiMove
    \/ MakeMove_Acquire
    \/ MakeMove_Write
    \/ MakeMove_Signal

SpecBoards == InitBoards /\ [][NextBoards]_vars

(***************************************************************************)
(* The minimax of the threaded variant, on a given board state.            *)
(***************************************************************************)
\* float('inf'), the initial alpha and beta of a search
INF == 1000000000

\* the sum of f over lo..hi (integers: the order of the additions does not
\* matter)
RECURSIVE SumRange(_, _, _)
SumRange(f, lo, hi) ==
    IF lo > hi THEN 0
    ELSE IF lo = hi THEN f[lo]
    ELSE SumRange(f, lo, (lo + hi) \div 2) + SumRange(f, (lo + hi) \div 2 + 1, hi)

\* the sum of f over 1..n
SumTo(f, n) == SumRange(f, 1, n)

\* lines 466-478: what evaluate_position_for_state adds for the empty cell
\* (i, j)
CellScore_for_state(b, i, j) ==
    (IF check_winner_for_state(Place(b, i, j, human_player)) = human_player
     THEN -10000 ELSE 0)
    + (IF check_winner_for_state(Place(b, i, j, ai_player)) = ai_player
       THEN 10000 ELSE 0)
    + CenterValue(i, j)

\* an evaluation that adds the center term of the occupied cells as well
evaluate_position_for_state_AllCells(b) ==
    SumTo([k \in 1..(N * N) |->
              (IF b[AllCells[k][1]][AllCells[k][2]] = EMPTY
               THEN CellScore_for_state(b, AllCells[k][1], AllCells[k][2])
                    - CenterValue(AllCells[k][1], AllCells[k][2])
               ELSE 0)
              + CenterValue(AllCells[k][1], AllCells[k][2])], N * N)

\* evaluate_position_for_state: the empty cells only
evaluate_position_for_state(b) ==
    SumTo([k \in 1..(N * N) |->
              IF b[AllCells[k][1]][AllCells[k][2]] = EMPTY
              THEN CellScore_for_state(b, AllCells[k][1], AllCells[k][2])
              ELSE 0], N * N)

\* the moves minimax_for_state enumerates on board_state, at every ply
minimax_moves_for_state(board_state, is_maximizing) ==
    get_valid_moves_for_state(board_state)

\* minimax_for_state: <<value, move>>.  minimax_Loop_for_state is the for
\* loop from candidate k on.
RECURSIVE minimax_for_state(_, _, _, _, _)
RECURSIVE minimax_Loop_for_state(_, _, _, _, _, _, _, _, _)
minimax_Loop_for_state(b, depth, alpha, beta, is_maximizing, moves, k, best_eval, best_move) ==
    IF k > Len(moves) THEN <<best_eval, best_move>>
    ELSE LET move == moves[k]
             mark == IF is_maximizing THEN ai_player ELSE human_player
             eval == minimax_for_state(Place(b, move[1], move[2], mark), depth - 1,
                                       alpha, beta, ~is_maximizing)[1]
             better == IF is_maximizing THEN eval > best_eval ELSE eval < best_eval
             new_eval == IF better THEN eval ELSE best_eval
             new_move == IF better THEN move ELSE best_move
             new_alpha == IF is_maximizing THEN Max2(alpha, eval) ELSE alpha
             new_beta == IF is_maximizing THEN beta ELSE Min2(beta, eval)
         IN  IF new_beta <= new_alpha THEN <<new_eval, new_move>>
             ELSE minimax_Loop_for_state(b, depth, new_alpha, new_beta,
                                         is_maximizing, moves, k + 1,
                                         new_eval, new_move)

minimax_for_state(b, depth, alpha, beta, is_maximizing) ==
    IF depth = 0 THEN <<evaluate_position_for_state(b), None>>
    ELSE LET valid_moves_ == minimax_moves_for_state(b, is_maximizing)
         IN  IF valid_moves_ = <<>> THEN <<0, None>>
             ELSE minimax_Loop_for_state(b, depth, alpha, beta, is_maximizing,
                                         valid_moves_, 1,
                                         IF is_maximizing THEN -INF ELSE INF, None)

(***************************************************************************)
(* tic-tac-go3.py: the single-threaded variant.  Its is_valid_move,        *)
(* can_block, make_move (without the lock and the event) and check_winner  *)
(* are those of the threaded variant; its ai_move searches self.board in   *)
(* place, by tentative marks that it undoes.                               *)
(***************************************************************************)
\* the depth ai_move passes to minimax
SearchDepth == 4

\* the depth the model searches to
ModelDepth == Min2(SearchDepth, MaxDepth)

\* go3 get_valid_moves: the empty cells next to a mark of the opponent of
\* self.current_player, then (board without marks only) every cell
go3_get_valid_moves(b, cur) ==
    LET nonempty == AnyNonEmpty(b)
        Blocking(c) == /\ is_valid_move(b, c[1], c[2])
                       /\ can_block(b, c[1], c[2], cur)
        Valid(c) == /\ is_valid_move(b, c[1], c[2])
                    /\ ~can_block(b, c[1], c[2], cur)
                    /\ ~nonempty
        blocking_moves == SelectSeq(AllCells, Blocking)
        valid_moves_ == SelectSeq(AllCells, Valid)
    IN  IF blocking_moves # <<>> THEN blocking_moves \o valid_moves_
        ELSE valid_moves_

\* one while loop of get_sequence_count: the cells from (r, c) on in
\* direction (dx, dy) that hold player's mark or are empty
RECURSIVE go3_Reach(_, _, _, _, _, _)
go3_Reach(b, r, c, dx, dy, player) ==
    IF 0 <= r /\ r < N /\ 0 <= c /\ c < N
       /\ (b[r][c] = player \/ b[r][c] = EMPTY)
    THEN 1 + go3_Reach(b, r + dx, c + dy, dx, dy, player)
    ELSE 0

\* get_sequence_count
go3_get_sequence_count(b, row, col, player) ==
    LET len == [d \in 1..4 |->
                  1 + go3_Reach(b, row + Directions[d][1], col + Directions[d][2],
                                Directions[d][1], Directions[d][2], player)
                    + go3_Reach(b, row - Directions[d][1], col - Directions[d][2],
                                -Directions[d][1], -Directions[d][2], player)]
    IN  Max2(Max2(len[1], len[2]), Max2(len[3], len[4]))

\* what evaluate_position adds for the empty cell (i, j)
go3_CellScore(b, i, j) ==
    (IF check_winner(Place(b, i, j, human_player)) = human_player
     THEN -10000 ELSE 0)
    + (IF check_winner(Place(b, i, j, ai_player)) = ai_player THEN 10000 ELSE 0)
    + (IF go3_get_sequence_count(b, i, j, ai_player) >= 6 THEN 1000 ELSE 0)
    - (IF go3_get_sequence_count(b, i, j, human_player) >= 6 THEN 1000 ELSE 0)
    + CenterValue(i, j)

\* go3 evaluate_position: the empty cells only
go3_evaluate_position(b) ==
    SumTo([k \in 1..(N * N) |->
              IF b[AllCells[k][1]][AllCells[k][2]] = EMPTY
              THEN go3_CellScore(b, AllCells[k][1], AllCells[k][2])
              ELSE 0], N * N)

\* the moves go3 minimax enumerates: get_valid_moves() reads
\* self.current_player, whatever the ply
go3_minimax_moves(b, cur, is_maximizing) ==
    go3_get_valid_moves(b, cur)

\* the array evaluate_position leaves behind: every empty cell was given
\* the human's mark, then the AI's, then set back to ' '
go3_board_after_evaluate_position(b) ==
    Undone(b, {c \in Idx \X Idx : b[c[1]][c[2]] = EMPTY})

\* go3 minimax on self.board: <<value, move, self.board on return>>.
\* go3_Loop is the for loop from candidate k on, with the running alpha,
\* beta, best value and best move; cur is self.current_player, which minimax
\* never changes.
RECURSIVE go3_minimax(_, _, _, _, _, _)
RECURSIVE go3_Loop(_, _, _, _, _, _, _, _, _, _)
go3_Loop(b, cur, depth, alpha, beta, is_maximizing, moves, k, best_eval, best_move) ==
    IF k > Len(moves) THEN <<best_eval, best_move, b>>
    ELSE LET move == moves[k]
             mark == IF is_maximizing THEN ai_player ELSE human_player
             sub == go3_minimax(Place(b, move[1], move[2], mark), cur, depth - 1,
                                alpha, beta, ~is_maximizing)
             eval == sub[1]
             undone == Place(sub[3], move[1], move[2], EMPTY)
             better == IF is_maximizing THEN eval > best_eval ELSE eval < best_eval
             new_eval == IF better THEN eval ELSE best_eval
             new_move == IF better THEN move ELSE best_move
             new_alpha == IF is_maximizing THEN Max2(alpha, eval) ELSE alpha
             new_beta == IF is_maximizing THEN beta ELSE Min2(beta, eval)
         IN  IF new_beta <= new_alpha THEN <<new_eval, new_move, undone>>
             ELSE go3_Loop(undone, cur, depth, new_alpha, new_beta, is_maximizing,
                           moves, k + 1, new_eval, new_move)

go3_minimax(b, cur, depth, alpha, beta, is_maximizing) ==
    LET winner == check_winner(b)
    IN  IF winner = ai_player THEN <<10000, None, b>>
        ELSE IF winner = human_player THEN <<-10000, None, b>>
        ELSE IF depth = 0
             THEN <<go3_evaluate_position(b), None,
                    go3_board_after_evaluate_position(b)>>
        ELSE go3_Loop(b, cur, depth, alpha, beta, is_maximizing,
                      go3_minimax_moves(b, cur, is_maximizing), 1,
                      IF is_maximizing THEN -INF ELSE INF, None)

\* the positions, in the order of ai_move's scans, of the empty cells on
\* which mark completes six
go3_ScanHits(b, mark) ==
    {k \in 1..(N * N) :
        /\ is_valid_move(b, AllCells[k][1], AllCells[k][2])
        /\ check_winner(Place(b, AllCells[k][1], AllCells[k][2], mark)) = mark}

\* one of ai_move's two scans: the first empty cell, row by row, on which
\* mark completes six
go3_Scan(b, mark) == FirstMove(AllCells, go3_ScanHits(b, mark))

\* the array a scan leaves behind: the empty cells it went over were marked
\* and set back to ' '
go3_board_after_Scan(b, mark) ==
    Undone(b, {c \in TriedCells(AllCells, go3_ScanHits(b, mark)) :
                  is_valid_move(b, c[1], c[2])})

\* ai_move that leaves the mark of its last tentative move on the board
go3_ai_move_run_NoUndo(b, cur) ==
    LET win == go3_Scan(b, ai_player)
        b1 == go3_board_after_Scan(b, ai_player)
        block == go3_Scan(b1, human_player)
        b2 == go3_board_after_Scan(b1, human_player)
        search == go3_minimax(b2, cur, ModelDepth, -INF, INF, TRUE)
        valid_moves_ == go3_get_valid_moves(search[3], cur)
    IN  IF win # None THEN <<win, Place(b1, win[1], win[2], ai_player)>>
        ELSE IF block # None THEN <<block, Place(b2, block[1], block[2], human_player)>>
        ELSE IF search[2] # None
             THEN <<search[2], Place(search[3], search[2][1], search[2][2], ai_player)>>
        ELSE IF valid_moves_ = <<>> THEN <<IndexError, search[3]>>
        ELSE <<valid_moves_[1], search[3]>>

\* go3 ai_move: <<what it returns, self.board on return>>.  Win scan, block
\* scan, minimax, and the first valid move when minimax returns no move
\* (IndexError when there is none); each step runs on the array the steps
\* before it left.
go3_ai_move_run(b, cur) ==
    LET win == go3_Scan(b, ai_player)
        b1 == go3_board_after_Scan(b, ai_player)
        block == go3_Scan(b1, human_player)
        b2 == go3_board_after_Scan(b1, human_player)
        search == go3_minimax(b2, cur, ModelDepth, -INF, INF, TRUE)
        valid_moves_ == go3_get_valid_moves(search[3], cur)
    IN  IF win # None THEN <<win, b1>>
        ELSE IF block # None THEN <<block, b2>>
        ELSE IF search[2] # None THEN <<search[2], search[3]>>
        ELSE IF valid_moves_ = <<>> THEN <<IndexError, search[3]>>
        ELSE <<valid_moves_[1], search[3]>>

\* what go3 ai_move returns
go3_ai_move(b, cur) == go3_ai_move_run(b, cur)[1]

\* go3 make_move: the board after the call
go3_make_move(b, row, col, player) ==
    IF InRange(row, col) /\ move_accepted(b, row, col, player)
    THEN Place(b, row, col, player)
    ELSE b

\* go3 play_game, the human's turn: the input loop ends when make_move
\* returns True
Go3_HumanMove ==
    /\ fg_pc = "idle"
    /\ current_player = human_player
    /\ MarkCount(board) < MaxMarks
    /\ \E row \in RowInputs, col \in ColInputs :
          /\ fg_row' = row /\ fg_col' = col
          /\ board' = go3_make_move(board, row, col, current_player)
          /\ IF board' # board
             THEN fg_ret' = True /\ fg_pc' = "mm_ret"
             ELSE fg_ret' = False /\ fg_pc' = "idle"
    /\ fg_player' = current_player
    /\ UNCHANGED <<current_player, best_moves, board_updated, stop_thinking,
                   lock, w_pc, w_locals>>

\* go3 play_game line 242: row, col = self.ai_move()
Go3_AiMove ==
    /\ fg_pc = "idle"
    /\ current_player = ai_player
    /\ \E run \in {go3_ai_move_run(board, current_player)} :
          fg_ret' = run[1] /\ board' = run[2]
    /\ fg_pc' = "ga_ret"
    /\ UNCHANGED <<current_player, best_moves, board_updated, stop_thinking, lock,
                   fg_row, fg_col, fg_player, w_pc, w_locals>>

\* go3 play_game line 243: make_move with the move of ai_move; its return
\* value is not looked at
Go3_MakeMove ==
    /\ fg_pc = "ga_ret"
    /\ IF fg_ret = IndexError
       THEN /\ fg_pc' = "over"
            /\ fg_ret' = Unset
            /\ UNCHANGED <<board, fg_row, fg_col, fg_player>>
       ELSE /\ fg_row' = fg_ret[1] /\ fg_col' = fg_ret[2]
            /\ fg_player' = current_player
            /\ board' = go3_make_move(board, fg_ret[1], fg_ret[2], current_player)
            /\ fg_ret' = IF board' # board THEN True ELSE False
            /\ fg_pc' = "mm_ret"
    /\ UNCHANGED <<current_player, best_moves, board_updated, stop_thinking,
                   lock, w_pc, w_locals>>

\* go3 play_game lines 246-260: a winner or a full board ends the game,
\* otherwise the turn passes
Go3_EndTurn ==
    /\ fg_pc = "mm_ret"
    /\ fg_ret' = Unset
    /\ IF check_winner(board) # NoWinner \/ is_board_full(board)
       THEN fg_pc' = "over" /\ UNCHANGED current_player
       ELSE fg_pc' = "idle" /\ current_player' = Opponent(current_player)
    /\ UNCHANGED <<board, best_moves, board_updated, stop_thinking, lock,
                   fg_row, fg_col, fg_player, w_pc, w_locals>>

\* a run of five in row 0 from column 0 and a run in row 1 from column 1
Go3RowBoards ==
    {PlaceRun(PlaceRun(EmptyBoard, q[1], 0, 0, 0, 1, WinLen - 1), q[2], 1, 1, 0, 1, q[3]) :
        q \in Players \X Players \X RowLens}

\* the board of a new game, and undecided boards with a run of five
Go3Boards ==
    {EmptyBoard} \cup Go3RowBoards
        \cup {b \in EdgeBoards : check_winner(b) = NoWinner}

\* a new game (the human begins), or the AI's turn on a board with marks
InitGo3 ==
    /\ board \in Go3Boards
    /\ current_player = IF board = EmptyBoard THEN human_player ELSE ai_player
    /\ best_moves = <<>>
    /\ board_updated = FALSE
    /\ stop_thinking = FALSE
    /\ lock = "free"
    /\ fg_pc = "idle" /\ fg_row = 0 /\ fg_col = 0 /\ fg_player = "X"
    /\ fg_ret = Unset
    /\ w_pc = "while"
    /\ current_board = Unset /\ scan_board = Unset /\ scan_player = "X"
    /\ valid_moves = <<>> /\ w_i = 1
    /\ test_board = Unset /\ best_response = Unset /\ board_hash = Unset

NextGo3 ==
    \/ Go3_HumanMove
    \/ Go3_AiMove
    \/ Go3_MakeMove
    \/ Go3_EndTurn

SpecGo3 == InitGo3 /\ [][NextGo3]_vars

(***************************************************************************)
(* Properties.                                                             *)
(***************************************************************************)
\* some cell within Chebyshev distance 1 of (row, col) holds mark
ChebyshevNear(b, row, col, mark) ==
    \E i \in Idx : \E j \in Idx :
        /\ Abs(i - row) <= 1 /\ Abs(j - col) <= 1
        /\ b[i][j] = mark

\* the condition under which a move is to be accepted
LegalMove(b, row, col, player) ==
    /\ 0 <= row /\ row < N /\ 0 <= col /\ col < N
    /\ b[row][col] = EMPTY
    /\ \/ ~(\E i \in Idx : \E j \in Idx : b[i][j] = Opponent(player))
       \/ ChebyshevNear(b, row, col, Opponent(player))

\* C1: make_move(row, col, player) returns True and writes player's mark
\* into exactly that cell if and only if the coordinates are in range, the
\* cell is empty and the board holds no opponent mark or the cell is within
\* Chebyshev distance 1 of one; in every other case it returns False.  Step
\* by step: a call that fails is_valid_move returns False on an illegal
\* move; the locked section writes exactly the cell and goes on to return
\* True when the move is legal, and returns False with the board as it was
\* when it is not; the board does not change between the two.
C1_MakeMoveContract ==
    [][ /\ \A row \in RowInputs : \A col \in ColInputs : \A player \in Players :
            (fg_pc = "idle" /\ MakeMove_Validate(row, col, player)) =>
                IF fg_pc' = "mm_ret"
                THEN /\ fg_ret' = False
                     /\ ~LegalMove(board, row, col, player)
                ELSE /\ fg_pc' = "mm_lock"
                     /\ fg_row' = row /\ fg_col' = col /\ fg_player' = player
        /\ (fg_pc \in {"mm_lock", "mm_body"} /\ fg_pc' = fg_pc) => board' = board
        /\ (fg_pc = "mm_lock" /\ fg_pc' # fg_pc) =>
                /\ fg_pc' = "mm_body" /\ board' = board
                /\ fg_row' = fg_row /\ fg_col' = fg_col /\ fg_player' = fg_player
        /\ (fg_pc = "mm_body" /\ fg_pc' # fg_pc) =>
                IF LegalMove(board, fg_row, fg_col, fg_player)
                THEN /\ board' = Place(board, fg_row, fg_col, fg_player)
                     /\ fg_pc' = "mm_set"
                ELSE /\ board' = board
                     /\ fg_pc' = "mm_ret" /\ fg_ret' = False
        /\ (fg_pc = "mm_set" /\ fg_pc' # fg_pc) =>
                /\ board' = board
                /\ fg_pc' = "mm_ret" /\ fg_ret' = True
      ]_vars

\* a move next to an opponent mark has been accepted
C1_Witness ==
    /\ fg_pc = "mm_ret" /\ fg_ret = True
    /\ AnyMark(board, "X") /\ AnyMark(board, "O")

\* C2: a rejected make_move changes nothing: the step that returns False,
\* and every step of the call before it, leaves every cell of the board, the
\* cache and the board_updated signal as they were.
C2_RejectedMoveChangesNothing ==
    [][ (fg_pc' # fg_pc /\ fg_pc \in {"idle", "mm_lock", "mm_body"}
            /\ fg_pc' \in {"mm_lock", "mm_body", "mm_ret"})
        => /\ UNCHANGED <<board, best_moves, board_updated>>
           /\ (fg_pc' = "mm_ret" => fg_ret' = False)
      ]_vars

\* a move has been rejected while there were a mark, a cache entry and a
\* raised signal to preserve
C2_Witness ==
    /\ fg_pc = "mm_ret" /\ fg_ret = False
    /\ AnyNonEmpty(board)
    /\ best_moves # <<>>
    /\ board_updated

\* C3: the move get_ai_move returns is find_best_response of the live board
\* as it is at the call, from the cache or computed.
C3_AiMoveIsBestResponse ==
    fg_pc = "ga_ret" => fg_ret = find_best_response(board)

\* get_ai_move has returned the cached entry of the live board, and the
\* cache was filled from a snapshot that is not the live board
C3_Witness ==
    /\ fg_pc = "ga_ret"
    /\ hash_board(board) \in DOMAIN best_moves
    /\ fg_ret = best_moves[hash_board(board)]
    /\ fg_ret # IndexError

C5_OnlyMakeMoveWrites ==
    [][ board' # board =>
            /\ fg_pc = "mm_body" /\ fg_pc' = "mm_set"
            /\ move_accepted(board, fg_row, fg_col, fg_player)
            /\ board' = Place(board, fg_row, fg_col, fg_player)
      ]_vars

\* the worker holds a hypothetical board that differs from the live board,
\* and a searched entry is in the cache
C5_Witness ==
    /\ w_pc = "store"
    /\ test_board # board
    /\ AnyNonEmpty(board)
    /\ best_moves # <<>>

\* C6: an accepted make_move raises board_updated inside the locked section
\* that writes the cell: the foreground holds the lock from the write until
\* the step that raises the signal, which is the step that releases the
\* lock; after that only the worker's clear lowers the signal.
C6_SignalRaisedUnderLock ==
    [][ /\ board' # board => (lock = "fg" /\ lock' = "fg" /\ fg_pc' = "mm_set")
        /\ fg_pc = "mm_set" => lock = "fg"
        /\ (fg_pc = "mm_set" /\ fg_pc' = "mm_set") => lock' = "fg"
        /\ (fg_pc = "mm_set" /\ fg_pc' # "mm_set") => board_updated'
        /\ (board_updated /\ ~board_updated') => (w_pc = "clear" /\ w_pc' # "clear")
      ]_vars

\* the worker has taken the lock after an accepted move and the signal is up
C6_Witness ==
    /\ fg_pc = "mm_ret" /\ fg_ret = True
    /\ lock = "worker" /\ w_pc = "copy"
    /\ board_updated

\* C7: a sweep is abandoned only in reaction to a move accepted after that
\* sweep's own snapshot was taken: when the worker breaks out of a sweep,
\* the live board differs from the sweep's snapshot.
C7_AbandonOnlyAfterNewMove ==
    w_pc = "clear" => board # current_board

\* C8: every key the worker writes to the cache is the fingerprint of the
\* sweep's snapshot with one extra human mark on a cell that is legal for
\* the human on that snapshot.
C8_KeysAreHumanMovesOnSnapshot ==
    w_pc \in {"lock2", "store"} =>
        \E m \in Range(get_valid_positions_on(current_board, human_player)) :
            board_hash = hash_board(Place(current_board, m[1], m[2], human_player))

\* C9: a thread that is reading or writing the live board or the cache holds
\* the lock: the worker while it copies the board, while get_valid_positions
\* scans it and while it stores a cache entry; the foreground inside
\* make_move's test and write and inside get_ai_move.
C9_AccessUnderLock ==
    /\ w_pc \in {"copy", "scan_end", "store"} => lock = "worker"
    /\ fg_pc \in {"mm_body", "mm_set", "ga_lookup", "ga_search"} => lock = "fg"

\* C10: no thread is running find_best_response while it holds the lock.
C10_NoSearchUnderLock ==
    /\ ~(fg_pc = "ga_search" /\ lock = "fg")
    /\ ~(w_pc = "eval" /\ lock = "worker")
\* C11: the worker holds the lock only while it copies the live board into
\* its snapshot or writes one cache entry, never while it searches; the
\* worker's first step after taking the lock releases it, and that step
\* changes at most one cache entry, so the foreground waits for one such
\* section at most.
C11_WorkerLockSections ==
    [][ /\ lock = "worker" => w_pc \in {"copy", "store"}
        /\ lock' = "worker" => w_pc' \in {"copy", "store"}
        /\ (lock = "worker" /\ w_pc' # w_pc) =>
              /\ lock' = "free"
              /\ \A h \in DOMAIN best_moves' :
                    h = board_hash \/ (h \in DOMAIN best_moves
                                       /\ best_moves'[h] = best_moves[h])
              /\ w_pc = "copy" => (best_moves' = best_moves /\ current_board' = board)
      ]_vars

\* the foreground is waiting for the lock while the worker writes an entry
C11_Witness ==
    /\ lock = "worker" /\ w_pc = "store"
    /\ fg_pc = "mm_lock"
\* C12: a failure raised while the worker evaluates a hypothetical board
\* does not end the worker: the sweep is abandoned and the worker is back at
\* the head of its loop, from where a later iteration starts a new sweep.
C12_FailureAbandonsSweep ==
    [][ (w_pc = "eval" /\ w_pc' # w_pc /\ best_response' = IndexError)
            => w_pc' = "while" ]_vars
\* C13: when no legal move exists for the AI on the board, the move
\* generator returns the empty sequence and get_ai_move returns without
\* raising an error.
C13_NoMoveIsNotAnError ==
    (fg_pc = "ga_ret" /\ get_valid_moves_for_state(board) = <<>>)
        => fg_ret # IndexError

\* the cache holds an entry for every board that one legal human move makes
\* of b
\* (distinct moves make distinct boards, so the cache has as many entries)
CacheComplete(b) ==
    LET moves == get_valid_positions_on(b, human_player)
    IN  /\ Len(moves) <= Cardinality(DOMAIN best_moves)
        /\ \A k \in 1..Len(moves) :
              hash_board(Place(b, moves[k][1], moves[k][2], human_player))
                  \in DOMAIN best_moves

\* C14: whenever it is the human's turn, then, the worker being scheduled
\* fairly, either a further move is accepted or the cache eventually holds
\* an entry for every board obtained from the live board by one legal human
\* move (or has grown to the MaxCache entries the model lets it hold).
C14_CacheEventuallyComplete ==
    (current_player = human_player)
        ~> \/ fg_pc = "mm_set"
           \/ Cardinality(DOMAIN best_moves) >= MaxCache
           \/ CacheComplete(board)

\* C15: once stop_thinking is set the worker enters no new sweep (it never
\* passes the head of its loop into the body again) and its thread ends;
\* __del__ returns, and only after the worker thread has ended.
C15_TeardownJoinsWorker ==
    /\ [](fg_pc = "closed" => w_pc \in {"done", "dead"})
    /\ [][(stop_thinking /\ w_pc' = "lock1") => w_pc = "lock1"]_vars
    /\ (stop_thinking ~> w_pc \in {"done", "dead"})
    /\ (stop_thinking ~> fg_pc = "closed")

\* __del__ has returned on a session that had accepted a move, the worker
\* having left its loop at the while test
C15_Witness == fg_pc = "closed" /\ w_pc = "done" /\ AnyNonEmpty(board)
\* the four directions of a line
Lines == {<<0, 1>>, <<1, 0>>, <<1, 1>>, <<1, -1>>}

\* mark fills len consecutive cells of some line of b
HasRun(b, mark, len) ==
    \E r \in Idx : \E c \in Idx : \E d \in Lines :
        \A k \in 0..(len - 1) :
            /\ r + k * d[1] \in Idx
            /\ c + k * d[2] \in Idx
            /\ b[r + k * d[1]][c + k * d[2]] = mark

\* with mark put on cell m, m lies on len consecutive cells of mark
RunThrough(b, m, mark, len) ==
    \E d \in Lines : \E s \in 0..(len - 1) :
        \A k \in 0..(len - 1) :
            LET i == m[1] + (k - s) * d[1]
                j == m[2] + (k - s) * d[2]
            IN  /\ i \in Idx
                /\ j \in Idx
                /\ (<<i, j>> = m \/ b[i][j] = mark)

\* the cells a move generator is to offer to player: every cell of a board
\* without marks, otherwise the empty cells next to a mark of the opponent
Candidates(b, player) ==
    IF \A i \in Idx : \A j \in Idx : b[i][j] = EMPTY
    THEN Idx \X Idx
    ELSE {m \in Idx \X Idx :
            /\ b[m[1]][m[2]] = EMPTY
            /\ ChebyshevNear(b, m[1], m[2], Opponent(player))}

\* the first cell of a set in the order of the scans (row by row)
FirstCell(cells) ==
    CHOOSE m \in cells : \A n \in cells : m[1] * N + m[2] <= n[1] * N + n[2]

\* the candidates of the AI that complete six for mark
WinningCells(b, mark) ==
    {m \in Candidates(b, ai_player) : HasRun(Place(b, m[1], m[2], mark), mark, WinLen)}

\* the candidates of the AI that would lie on a run of len of mark
RunCells(b, mark, len) ==
    {m \in Candidates(b, ai_player) : RunThrough(b, m, mark, len)}

\* what the priority order asks find_best_response to return on b
PriorityMove(b) ==
    LET win == WinningCells(b, ai_player)
        block == WinningCells(b, human_player)
        block5 == RunCells(b, human_player, 5)
        make5 == RunCells(b, ai_player, 5)
        block4 == RunCells(b, human_player, 4)
    IN  IF win # {} THEN FirstCell(win)
        ELSE IF block # {} THEN FirstCell(block)
        ELSE IF block5 # {} THEN FirstCell(block5)
        ELSE IF make5 # {} THEN FirstCell(make5)
        ELSE IF block4 # {} THEN FirstCell(block4)
        ELSE find_strategic_move(b)

\* C16: the move find_best_response returns is the first candidate of the
\* first non-empty class among: wins for the AI, blocks a human win, blocks
\* a human run of five, makes an AI run of five, blocks a human run of
\* four; the fallback evaluation when all are empty.  In particular a
\* winning move is returned whenever there is one.
C16_FastPathPriority ==
    fg_pc = "ga_ret" => fg_ret = PriorityMove(board)

\* the AI has a winning move and the human a winning cell to block, and the
\* winning move is what was returned
C16_Witness ==
    /\ fg_pc = "ga_ret"
    /\ WinningCells(board, ai_player) # {}
    /\ WinningCells(board, human_player) # {}
    /\ fg_ret \in WinningCells(board, ai_player)
    /\ fg_ret \notin WinningCells(board, human_player)
\* the end cells of the runs of exactly five of mark whose two end cells are
\* both on the board and empty
OpenEnds(b, mark) ==
    {e \in Idx \X Idx :
        \E r \in Idx : \E c \in Idx : \E d \in Lines :
            /\ r - d[1] \in Idx /\ c - d[2] \in Idx
            /\ r + 5 * d[1] \in Idx /\ c + 5 * d[2] \in Idx
            /\ \A k \in 0..4 : b[r + k * d[1]][c + k * d[2]] = mark
            /\ b[r - d[1]][c - d[2]] = EMPTY
            /\ b[r + 5 * d[1]][c + 5 * d[2]] = EMPTY
            /\ e \in {<<r - d[1], c - d[2]>>, <<r + 5 * d[1], c + 5 * d[2]>>}}

\* some empty cell completes six for mark
CanCompleteSix(b, mark) ==
    \E m \in Idx \X Idx :
        /\ b[m[1]][m[2]] = EMPTY
        /\ HasRun(Place(b, m[1], m[2], mark), mark, WinLen)

SingleOpenEnds(b, mark) ==
    LET Open(i, j) == i \in Idx /\ j \in Idx /\ b[i][j] = EMPTY
    IN  {e \in Idx \X Idx :
            \E r \in Idx : \E c \in Idx : \E d \in Lines :
                /\ r + 4 * d[1] \in Idx /\ c + 4 * d[2] \in Idx
                /\ \A k \in 0..4 : b[r + k * d[1]][c + k * d[2]] = mark
                /\ \/ /\ Open(r - d[1], c - d[2])
                      /\ ~Open(r + 5 * d[1], c + 5 * d[2])
                      /\ e = <<r - d[1], c - d[2]>>
                   \/ /\ ~Open(r - d[1], c - d[2])
                      /\ Open(r + 5 * d[1], c + 5 * d[2])
                      /\ e = <<r + 5 * d[1], c + 5 * d[2]>>}

\* those of them that are next to a human mark
PlayableOpenEnds(b) ==
    {e \in SingleOpenEnds(b, ai_player) : ChebyshevNear(b, e[1], e[2], human_player)}

C19_WinnerIffSix ==
    LET winner == check_winner(board)
        six == {p \in Players : HasRun(board, p, WinLen)}
    IN  /\ winner \in Players \cup {NoWinner}
        /\ winner \in Players => winner \in six
        /\ six # {} => winner \in Players
        /\ six = {} => winner = NoWinner

\* a winner is reported for six marks down-left from the top-right corner,
\* and play_game ends the game on it
C19_Witness ==
    /\ fg_pc = "over"
    /\ check_winner(board) = ai_player
    /\ \A k \in 0..(WinLen - 1) : board[k][N - 1 - k] = ai_player
\* C20: on every board, what get_valid_positions returns for either player
\* as the current player, and what get_valid_moves_for_state returns for the
\* AI, is as a set: every cell when the board holds no mark, otherwise the
\* empty cells of the board within Chebyshev distance 1 of a mark of the
\* mover's opponent; no cell is listed twice.
C20_GeneratorsListTheCandidates ==
    /\ \A p \in Players :
          LET positions == get_valid_positions_on(board, p)
          IN  /\ Range(positions) = Candidates(board, p)
              /\ Len(positions) = Cardinality(Candidates(board, p))
    /\ LET moves == get_valid_moves_for_state(board)
       IN  /\ Range(moves) = Candidates(board, ai_player)
           /\ Len(moves) = Cardinality(Candidates(board, ai_player))

\* get_ai_move has searched a board with marks on it, on which some but not
\* all empty cells are candidates, and returned one of them
C20_Witness ==
    /\ fg_pc = "ga_ret"
    /\ AnyNonEmpty(board)
    /\ fg_ret \in Candidates(board, ai_player)
    /\ \E i \in Idx : \E j \in Idx :
          board[i][j] = EMPTY /\ <<i, j>> \notin Candidates(board, ai_player)
\* a cell make_move accepts for player on b
HasLegalMove(b, player) ==
    \E row \in Idx, col \in Idx : move_accepted(b, row, col, player)

\* C21: in tic-tac-go3.py, on a board that is not full, has no winner,
\* holds a mark of the human (who moves first) and has a legal move for the
\* AI, the move ai_move returned is one make_move accepts for the AI.
C21_AiMoveIsAccepted ==
    (/\ fg_pc = "ga_ret"
     /\ AnyMark(board, human_player)
     /\ ~is_board_full(board)
     /\ check_winner(board) = NoWinner
     /\ HasLegalMove(board, ai_player))
        => /\ fg_ret # IndexError
           /\ move_accepted(board, fg_ret[1], fg_ret[2], ai_player)
\* the center term of every one of the N * N cells
CenterOfAllCells ==
    SumTo([k \in 1..(N * N) |-> CenterValue(AllCells[k][1], AllCells[k][2])], N * N)

\* the empty cells of b on which mark completes a run of six
CompletingCells(b, mark) ==
    {c \in Idx \X Idx :
        /\ b[c[1]][c[2]] = EMPTY
        /\ check_winner(Place(b, c[1], c[2], mark)) = mark}

\* the potential-sequence terms of go3 evaluate_position
go3_PotentialTerms(b) ==
    SumTo([k \in 1..(N * N) |->
              IF b[AllCells[k][1]][AllCells[k][2]] = EMPTY
              THEN (IF go3_get_sequence_count(b, AllCells[k][1], AllCells[k][2],
                                              ai_player) >= 6 THEN 1000 ELSE 0)
                   - (IF go3_get_sequence_count(b, AllCells[k][1], AllCells[k][2],
                                                human_player) >= 6 THEN 1000 ELSE 0)
              ELSE 0], N * N)

\* the center term of the empty cells of b
CenterOfEmptyCells(b) ==
    SumTo([k \in 1..(N * N) |->
              IF b[AllCells[k][1]][AllCells[k][2]] = EMPTY
              THEN CenterValue(AllCells[k][1], AllCells[k][2]) ELSE 0], N * N)

\* C30, as stated: the static evaluation is the center term of all N * N
\* cells, occupied or not, plus 10000 for each empty cell on which an AI mark
\* completes six, minus 10000 for each on which a human mark does (and, in
\* tic-tac-go3.py, the potential-sequence terms).
C30_CenterTermOfEveryCell ==
    fg_pc = "ga_ret" =>
        /\ evaluate_position_for_state(board)
             = CenterOfAllCells
                 + 10000 * Cardinality(CompletingCells(board, ai_player))
                 - 10000 * Cardinality(CompletingCells(board, human_player))
        /\ go3_evaluate_position(board)
             = CenterOfAllCells
                 + 10000 * Cardinality(CompletingCells(board, ai_player))
                 - 10000 * Cardinality(CompletingCells(board, human_player))
                 + go3_PotentialTerms(board)
\* C30, amended: the static evaluation is the center term of the empty
\* cells, plus 10000 for each empty cell on which an AI mark completes six,
\* minus 10000 for each on which a human mark does (and, in tic-tac-go3.py,
\* the potential-sequence terms).
C30_CenterTermOfEmptyCells ==
    fg_pc = "ga_ret" =>
        /\ evaluate_position_for_state(board)
             = CenterOfEmptyCells(board)
                 + 10000 * Cardinality(CompletingCells(board, ai_player))
                 - 10000 * Cardinality(CompletingCells(board, human_player))
        /\ go3_evaluate_position(board)
             = CenterOfEmptyCells(board)
                 + 10000 * Cardinality(CompletingCells(board, ai_player))
                 - 10000 * Cardinality(CompletingCells(board, human_player))
                 + go3_PotentialTerms(board)

\* C30 witness: a position is evaluated whose occupied cells have a center
\* term other than zero and on which both players have a completing cell
C30_Witness ==
    /\ fg_pc = "ga_ret"
    /\ CenterOfEmptyCells(board) # CenterOfAllCells
    /\ CompletingCells(board, ai_player) # {}
    /\ CompletingCells(board, human_player) # {}
\* the cells legal for player on b
LegalCells(b, player) ==
    {c \in Idx \X Idx : LegalMove(b, c[1], c[2], player)}

\* C29: when ai_move's scans find nothing and minimax runs on the board,
\* the maximizing ply enumerates the cells legal for the AI and, after each
\* of the AI's moves, the minimizing ply enumerates the cells legal for the
\* human (minimax of tic-tac-go3.py and minimax_for_state alike).
C29_PlyEnumeratesTheMoversMoves ==
    (/\ fg_pc = "ga_ret"
     /\ AnyMark(board, human_player)
     /\ go3_Scan(board, ai_player) = None
     /\ go3_Scan(board, human_player) = None)
        => /\ Range(go3_minimax_moves(board, current_player, TRUE))
                = LegalCells(board, ai_player)
           /\ Range(minimax_moves_for_state(board, TRUE))
                = LegalCells(board, ai_player)
           /\ \A m \in LegalCells(board, ai_player) :
                 LET after == Place(board, m[1], m[2], ai_player)
                 IN  /\ Range(go3_minimax_moves(after, current_player, FALSE))
                          = LegalCells(after, human_player)
                     /\ Range(minimax_moves_for_state(after, FALSE))
                          = LegalCells(after, human_player)
\* the board arrays of a state: the live board, the worker's snapshot and
\* the board the worker searches
StateBoards ==
    {board} \cup (IF current_board = Unset THEN {} ELSE {current_board})
            \cup (IF test_board = Unset THEN {} ELSE {test_board})

StaleSnapshot == current_board # Unset /\ current_board # board

\* C23: cancellation is checked between candidates only.  While the worker
\* is inside a sweep whose snapshot predates an accepted move, board_updated
\* is set or is being set by the make_move that holds the lock; the search
\* in flight runs on and its entry is written; that write leaves the signal
\* set, the check that follows does not start another search, and the sweep
\* is abandoned (or is over): one entry at most.
C23_OneStaleEntryAtMost ==
    [][/\ (StaleSnapshot' /\ w_pc' \in {"check", "eval", "lock2", "store"})
            => (board_updated' \/ (lock' = "fg" /\ fg_pc' = "mm_set"))
       /\ (w_pc = "eval" /\ w_pc' # "eval") => w_pc' \in {"lock2", "dead"}
       /\ (w_pc = "store" /\ w_pc' # "store" /\ StaleSnapshot)
            => (w_pc' = "check" /\ board_updated')
       /\ (w_pc = "check" /\ w_pc' = "eval") => ~board_updated
       /\ (w_pc = "check" /\ w_pc' # "check" /\ board_updated)
            => /\ w_pc' \in {"clear", "while"}
               /\ best_moves' = best_moves
       /\ (board_updated /\ ~board_updated') => w_pc = "clear"
       /\ (w_pc = "clear" /\ w_pc' # "clear")
            => (w_pc' = "while" /\ current_board' = Unset)]_vars

\* C23 witness: the worker is about to write an entry computed from a
\* snapshot that predates the accepted move, with the signal raised
C23_Witness ==
    /\ w_pc = "store"
    /\ StaleSnapshot
    /\ board_updated
    /\ fg_pc # "mm_set"
C25_GeneratedMovesAreAccepted ==
    /\ \A b \in StateBoards :
          /\ \A player \in Players :
                \A m \in Range(get_valid_positions_on(b, player)) :
                    is_valid_move(b, m[1], m[2]) /\ move_accepted(b, m[1], m[2], player)
          /\ \A m \in Range(get_valid_moves_for_state(b)) :
                is_valid_move(b, m[1], m[2]) /\ move_accepted(b, m[1], m[2], ai_player)
    /\ (fg_pc = "ga_ret" /\ fg_ret # IndexError)
          => /\ is_valid_move(board, fg_ret[1], fg_ret[2])
             /\ move_accepted(board, fg_ret[1], fg_ret[2], ai_player)
    /\ (fg_pc = "mm_ret" /\ current_player = ai_player) => fg_ret = True

\* C25 witness: get_ai_move has returned the cached move of the live board
\* and play_game is about to pass it to make_move
C25_Witness ==
    /\ fg_pc = "ga_ret"
    /\ current_player = ai_player
    /\ hash_board(board) \in DOMAIN best_moves
    /\ fg_ret = best_moves[hash_board(board)]
\* a list of cells in row-major order, without repetition
RowMajor(moves) ==
    \A k \in 1..(Len(moves) - 1) :
        moves[k][1] * N + moves[k][2] < moves[k + 1][1] * N + moves[k + 1][2]

\* the candidates of the strategic fallback whose score no candidate exceeds
BestStrategic(b) ==
    LET cand == Range(get_valid_moves_for_state(b))
    IN  {m \in cand : \A n \in cand :
            evaluate_strategic_position(b, n[1], n[2])
                <= evaluate_strategic_position(b, m[1], m[2])}

\* the value of the AI's move m on b: the search of the position after it,
\* with the full window
go3_ValueOf(b, cur, m) ==
    go3_minimax(Place(b, m[1], m[2], ai_player), cur, ModelDepth - 1,
                -INF, INF, FALSE)[1]

\* the moves of the root of go3 minimax whose value no move exceeds
go3_BestMoves(b, cur) ==
    LET valued == {<<m, go3_ValueOf(b, cur, m)>> :
                      m \in Range(go3_minimax_moves(b, cur, TRUE))}
    IN  {p[1] : p \in {q \in valued : \A r \in valued : r[2] <= q[2]}}

\* minimax has run: ai_move's scans found nothing on the board
MinimaxRan ==
    /\ fg_pc = "ga_ret"
    /\ AnyMark(board, human_player)
    /\ go3_Scan(board, ai_player) = None
    /\ go3_Scan(board, human_player) = None
    /\ fg_ret # IndexError

\* C28: the generators list their moves in row-major order; the strategic
\* fallback returns the row-major first of the candidates of the best score;
\* the move minimax returns is the row-major first of the moves of the best
\* value.
C28_TiesGoToTheFirstMove ==
    fg_pc = "ga_ret" =>
        /\ RowMajor(get_valid_moves_for_state(board))
        /\ RowMajor(go3_get_valid_moves(board, current_player))
        /\ \A player \in Players : RowMajor(get_valid_positions_on(board, player))
        /\ get_valid_moves_for_state(board) # <<>>
              => find_strategic_move(board) = FirstCell(BestStrategic(board))
        /\ MinimaxRan => fg_ret = FirstCell(go3_BestMoves(board, current_player))

\* C28 witness: minimax has run on a board on which several moves share the
\* best value and several candidates share the best strategic score
C28_Witness ==
    /\ MinimaxRan
    /\ Cardinality(BestStrategic(board)) > 1
    /\ Cardinality(go3_BestMoves(board, current_player)) > 1
\* the boards the worker would search from b: b with the human's mark on a
\* candidate
HypotheticalBoards(b) ==
    {Place(b, m[1], m[2], human_player) :
        m \in Range(get_valid_positions_on(b, human_player))}

=============================================================================
